---- MODULE Spec2Model ----
(***************************************************************************)
(* Accessibility-aware routing of holyrood-trails (src/app.js).            *)
(*                                                                         *)
(* The model covers the routing core: the graph build from the fetched     *)
(* feature collection, the connected components, the weight function made  *)
(* from the difficulty / hazard checkboxes, the two-pass Dijkstra          *)
(* resolution of the map click handler, the Start / Clear buttons and the  *)
(* route-hint banner with its delayed hide callback. The tutorial overlay  *)
(* and the two sets of listeners on its buttons have a specification of    *)
(* their own, SpecTour.                                                    *)
(*                                                                         *)
(* Representation                                                          *)
(*  - All vertices lie on one meridian, so a coordinate is one integer     *)
(*    (latitude, in sub-units of the key precision) and the great-circle   *)
(*    distance between two coordinates is proportional to their            *)
(*    difference.                                                          *)
(*  - A JS Number that may be NaN is a record [nan, val].                  *)
(*  - Scores are fixed-point numbers with ScoreScale units per 1, so that  *)
(*    fractional scores such as 7.5 exist; a cost is therefore             *)
(*    meters * score^2 in units of 1 / ScoreScale^2.                       *)
(*  - The variable last is a trace of the most recent event and of what    *)
(*    its handler did (which branch, how many solver calls); an event that *)
(*    finds no listener leaves the branch "nohandler". It is not program   *)
(*    state.                                                               *)
(*  - The info panel, the marker colours, the map layers other than the    *)
(*    route line and the two markers, and the CSS class 'show' that fades  *)
(*    the banner in and out are not part of the state.                     *)
(***************************************************************************)
EXTENDS Integers, Sequences, FiniteSets, TLC

VARIABLES
    features,        \* which of Collections the fetch delivers as routingFC.features
    fetchState,      \* "pending" | "built" | "failed"
    g,               \* graphlib graph: [nodes: Seq(key), edges: [{v,w} -> label]]
    nodeKeyToCoord,  \* node key -> coordinate
    comps,           \* graphlib.alg.components(g), a sequence of node sets
    routingActive,
    startNode,
    endNode,
    checked,         \* difficulty checkboxes of the toolbox: level -> BOOLEAN
    pref,            \* pref-steep / pref-vertigo / pref-uneven / pref-overgrowth
    hintEl,          \* #route-hint: [textContent, hidden]
    hideTimers,      \* number of pending setTimeout callbacks of hideRouteHint
    routeLine,       \* coordinates of the 'shortest-path' source, <<>> when absent
    markers,         \* [start, end]: coordinate of each marker source, Null when absent
    probe,           \* input / output of one weight-function evaluation (SpecWeight),
                     \* order and position of the build loop (SpecBuild)
    last             \* trace of the most recent event

vars == <<features, fetchState, g, nodeKeyToCoord, comps, routingActive, startNode,
          endNode, checked, pref, hintEl, hideTimers, routeLine,
          markers, probe, last>>

(***************************************************************************)
(* Values                                                                  *)
(***************************************************************************)
\* null / undefined
Null == -1

\* Number.POSITIVE_INFINITY; every finite cost of the model is far below it
Infinity == 100000000

\* fixed-point units per 1 of a score
ScoreScale == 2

\* sub-units of a coordinate per unit of the key precision (toFixed(7))
Quantum == 2

\* meters of great-circle distance per coordinate sub-unit
MetersPerUnit == 5

\* Extreme threshold (score >= EXTREME_MIN)
EXTREME_MIN == 8

\* Advisory threshold in meters
ROUTE_WARN_M == 2000

\* largest coordinate a map click may carry
MaxPos == 6

\* most hide callbacks pending at once
MaxTimers == 2

\* most hazard preference checkboxes unchecked at once
MaxBans == 1

difficultyOrder == <<"easy", "moderate", "challenging", "extreme">>

Levels == {"easy", "moderate", "challenging", "extreme"}

PrefIds == {"steep", "vertigo", "uneven", "overgrowth"}

Num(n) == [nan |-> FALSE, val |-> n]

NaN == [nan |-> TRUE, val |-> 0]

\* a total_score given in fixed-point units: S2(15) is 7.5
S2(h) == Num(h)

\* a property the feature does not carry
Undefined == "undefined"

Abs(x) == IF x < 0 THEN -x ELSE x

Plus(a, b) == IF a >= Infinity \/ b >= Infinity THEN Infinity ELSE a + b

(***************************************************************************)
(* Input: feature collections                                              *)
(***************************************************************************)
Props(score, slope, vert, surf, nat) ==
    [total_score |-> score, slope_class |-> slope, vertigo |-> vert,
     surface_score |-> surf, natural |-> nat]

\* a segment without hazards
Plain(score) == Props(score, Num(1), "no", Num(1), Undefined)

Line(coords, props) ==
    [geometry |-> [type |-> "LineString", coordinates |-> coords], properties |-> props]

MultiLine(parts, props) ==
    [geometry |-> [type |-> "MultiLineString", coordinates |-> parts], properties |-> props]

\* a feature whose geometry is null
NoGeometry(props) ==
    [geometry |-> [type |-> Undefined, coordinates |-> <<>>], properties |-> props]

\* The feature collections the fetch may deliver. Keys are 0 (A), 2 (B), 4 (C), 6 (D).
Collections ==
    << \* 1: A-B score 2, B-C score 9
       << Line(<<0, 2>>, Plain(S2(4))), Line(<<2, 4>>, Plain(S2(18))) >>,
       \* 2: two components {A,B} and {C,D}, vertigo on C-D
       << Line(<<0, 2>>, Plain(S2(4))),
          Line(<<4, 6>>, Props(S2(4), Num(1), "yes", Num(1), Undefined)) >>,
       \* 3: the only way to C is an edge of score 7.5
       << Line(<<0, 2>>, Plain(S2(4))), Line(<<2, 4>>, Plain(S2(15))) >>,
       \* 4: a dear direct edge A-C next to a cheaper two-hop line, raw
       \*    coordinates off the key grid
       << Line(<<0, 1, 4>>, Plain(S2(4))), Line(<<0, 4>>, Plain(S2(8))),
          Line(<<3, 6>>, Plain(S2(12))) >>,
       \* 5: hazards: vertigo on A-B, steep on B-C, a moderate scrub detour A-C
       << Line(<<0, 2>>, Props(S2(4), Num(2), "YES", Num(2), "")),
          Line(<<2, 4>>, Props(S2(4), Num(5), "no", NaN, "wood")),
          Line(<<0, 4>>, Props(S2(10), NaN, Undefined, Num(4), "scrub")) >>,
       \* 6: duplicate segments of one pair, a repeated vertex, a one-vertex
       \*    feature, missing and zero scores
       << Line(<<0, 2>>, Plain(S2(12))), Line(<<2, 0>>, Plain(S2(4))),
          Line(<<0, 2>>, Plain(S2(6))), Line(<<2, 2, 4>>, Plain(NaN)),
          Line(<<6>>, Plain(S2(4))), Line(<<4, 6>>, Plain(S2(0))) >>,
       \* 7: a multi-part line and an extreme shortcut A-D
       << MultiLine(<< <<0, 2>>, <<4, 6>> >>, Plain(S2(4))),
          Line(<<0, 6>>, Props(S2(16), Num(6), "yes", Num(1), "")) >>,
       \* 8: no feature at all
       << >>,
       \* 9: a feature without geometry after a well-formed one
       << Line(<<0, 2>>, Plain(S2(4))), NoGeometry(Plain(S2(4))) >>,
       \* 10: a repeated vertex in each of two features, scores 2 and 9
       << Line(<<0, 0, 2>>, Plain(S2(4))), Line(<<2, 4, 4>>, Plain(S2(18))) >>,
       \* 11: a negative score on A-B, score 9 on B-C
       << Line(<<0, 2>>, Plain(S2(-4))), Line(<<2, 4>>, Plain(S2(18))) >>,
       \* 12: two overlapping segments A-B, the cheaper one with vertigo risk
       << Line(<<0, 2>>, Props(S2(4), Num(1), "yes", Num(1), Undefined)),
          Line(<<0, 2>>, Plain(S2(6))), Line(<<2, 4>>, Plain(S2(4))) >>
    >>

(***************************************************************************)
(* Graph build (fetch(...).then callback, first part)                      *)
(***************************************************************************)
\* +v.toFixed(7): the nearest multiple of the key precision, the larger one on a tie
toFixed7(v) == ((2 * v + Quantum) \div (2 * Quantum)) * Quantum

\* key(c): the node identity of a coordinate
key(c) == toFixed7(c)

\* turf.distance(a, b, {units: 'meters'}) on one meridian
distance(a, b) == MetersPerUnit * Abs(a - b)

\* mutant: Number(x) || 0
NumberOr0(x) == IF x.nan THEN 0 ELSE x.val

\* Number(x) || 1
NumberOr1(x) == IF x.nan \/ x.val = 0 THEN ScoreScale ELSE x.val

\* String.prototype.toLowerCase on the strings of the input
toLowerCase(s) == CASE s = "YES" -> "yes" [] s = "Yes" -> "yes" [] s = "NO" -> "no"
                    [] OTHER -> s

\* x || ''
OrEmpty(x) == IF x = Undefined THEN "" ELSE x

\* arr.flat(): one level
RECURSIVE flat(_)
flat(parts) == IF parts = <<>> THEN <<>> ELSE Head(parts) \o flat(Tail(parts))

EmptyGraph == [nodes |-> <<>>, edges |-> <<>>]

Range(f) == {f[i] : i \in DOMAIN f}

\* g.setNode(v)
setNode(G, v) == IF v \in Range(G.nodes) THEN G ELSE [G EXCEPT !.nodes = Append(@, v)]

\* g.hasEdge(v, w), for an undirected graph
hasEdge(G, v, w) == {v, w} \in DOMAIN G.edges

\* g.edge({v, w}): the label of an edge the graph has
edge(G, v, w) == G.edges[{v, w}]

\* g.setEdge(v, w, label): one edge per unordered pair
setEdge(G, v, w, label) ==
    LET H == setNode(setNode(G, v), w)
    IN  [H EXCEPT !.edges = [p \in DOMAIN G.edges \cup {{v, w}} |->
                                IF p = {v, w} THEN label ELSE G.edges[p]]]

\* mutant: the cost grows with the score, not with its square
SegmentLabelLinear(f, aC, bC) ==
    LET score == NumberOr1(f.properties.total_score)
        meters == distance(aC, bC)
    IN  [cost |-> meters * score,
         score |-> score,
         slope_class |-> f.properties.slope_class,
         vertigo |-> toLowerCase(OrEmpty(f.properties.vertigo)),
         surface_score |-> f.properties.surface_score,
         natural |-> OrEmpty(f.properties.natural)]

\* the label of the segment aC - bC of a feature
SegmentLabel(f, aC, bC) ==
    LET score == NumberOr1(f.properties.total_score)
        meters == distance(aC, bC)
    IN  [cost |-> meters * score * score,
         score |-> score,
         slope_class |-> f.properties.slope_class,
         vertigo |-> toLowerCase(OrEmpty(f.properties.vertigo)),
         surface_score |-> f.properties.surface_score,
         natural |-> OrEmpty(f.properties.natural)]

\* mutant: the last segment of a pair always wins
ReplacesAlways(G, a, b, label) == TRUE

\* existing = g.edge({v:a, w:b}); if (!existing || cost < existing.cost)
Replaces(G, a, b, label) == ~hasEdge(G, a, b) \/ label.cost < edge(G, a, b).cost

\* one iteration of the for loop over consecutive vertices
AddSegment(B, f, aC, bC) ==
    LET a == key(aC)
        b == key(bC)
        G1 == setNode(setNode(B.g, a), b)
        label == SegmentLabel(f, aC, bC)
    IN  [g |-> IF Replaces(G1, a, b, label) THEN setEdge(G1, a, b, label) ELSE G1,
         nodeKeyToCoord |-> [k \in DOMAIN B.nodeKeyToCoord \cup {a, b} |->
                                IF k = b THEN bC
                                ELSE IF k = a THEN aC
                                ELSE B.nodeKeyToCoord[k]],
         thrown |-> B.thrown]

\* mutant: the only vertex of a one-vertex feature becomes a node
RECURSIVE AddSegmentsNodeFirst(_, _, _, _)
AddSegmentsNodeFirst(B, f, coords, i) ==
    IF i > Len(coords) - 1
    THEN IF Len(coords) = 1 THEN [B EXCEPT !.g = setNode(@, key(coords[1]))] ELSE B
    ELSE AddSegmentsNodeFirst(AddSegment(B, f, coords[i], coords[i + 1]), f, coords, i + 1)

RECURSIVE AddSegments(_, _, _, _)
AddSegments(B, f, coords, i) ==
    IF i > Len(coords) - 1 THEN B
    ELSE AddSegments(AddSegment(B, f, coords[i], coords[i + 1]), f, coords, i + 1)

\* the body of routingFC.features.forEach; reading the coordinates of a
\* feature without geometry throws
AddFeature(B, f) ==
    IF B.thrown THEN B
    ELSE IF f.geometry.type = Undefined THEN [B EXCEPT !.thrown = TRUE]
    ELSE LET raw == IF f.geometry.type = "MultiLineString"
                    THEN flat(f.geometry.coordinates)
                    ELSE f.geometry.coordinates
             coords == [i \in DOMAIN raw |-> toFixed7(raw[i])]
         IN  AddSegments(B, f, coords, 1)

RECURSIVE AddFeatures(_, _)
AddFeatures(B, fs) ==
    IF fs = <<>> THEN B ELSE AddFeatures(AddFeature(B, Head(fs)), Tail(fs))

BuildGraph(fs) ==
    AddFeatures([g |-> EmptyGraph, nodeKeyToCoord |-> <<>>, thrown |-> FALSE], fs)

(***************************************************************************)
(* Connected components and nearest node                                   *)
(***************************************************************************)
NodeSet(G) == Range(G.nodes)

\* g.neighbors(v)
neighbors(G, v) == {w \in NodeSet(G) : hasEdge(G, v, w)}

\* mutant: the search stops at the neighbours of its start
dfsOneStep(G, S) == S \cup UNION {neighbors(G, v) : v \in S}

\* the nodes a depth-first search from the nodes of S visits
RECURSIVE dfs(_, _)
dfs(G, S) ==
    LET T == S \cup UNION {neighbors(G, v) : v \in S}
    IN  IF T = S THEN S ELSE dfs(G, T)

\* graphlib.alg.components(g): one node set per component, in the order in
\* which g.nodes() meets the components
RECURSIVE componentsFrom(_, _, _, _)
componentsFrom(G, i, visited, cmpts) ==
    IF i > Len(G.nodes) THEN cmpts
    ELSE IF G.nodes[i] \in visited THEN componentsFrom(G, i + 1, visited, cmpts)
    ELSE LET cmpt == dfs(G, {G.nodes[i]})
         IN  componentsFrom(G, i + 1, visited \cup cmpt, Append(cmpts, cmpt))

components(G) == componentsFrom(G, 1, {}, <<>>)

\* compIdx(k): index of the first component that includes k, -1 when none does
compIdx(C, k) ==
    IF \E i \in DOMAIN C : k \in C[i]
    THEN (CHOOSE i \in DOMAIN C : k \in C[i] /\ \A j \in 1..(i - 1) : k \notin C[j]) - 1
    ELSE -1

\* nearestNodeTo(lng, lat): the first node of g.nodes() at the least distance
RECURSIVE nearestFrom(_, _, _, _, _, _)
nearestFrom(G, coordOf, c, i, best, bestD) ==
    IF i > Len(G.nodes) THEN best
    ELSE LET k == G.nodes[i]
             d == distance(coordOf[k], c)
         IN  IF k \in DOMAIN coordOf /\ d < bestD
             THEN nearestFrom(G, coordOf, c, i + 1, k, d)
             ELSE nearestFrom(G, coordOf, c, i + 1, best, bestD)

nearestNodeTo(G, coordOf, c) == nearestFrom(G, coordOf, c, 1, Null, Infinity)

(***************************************************************************)
(* Preferences and the weight function                                     *)
(***************************************************************************)
\* getCheckedDifficulties()
getCheckedDifficulties(chk) == {l \in Levels : chk[l]}

\* scoreToDifficulty(score), the score in fixed-point units
scoreToDifficulty(score) ==
    IF score <= 3 * ScoreScale THEN "easy"
    ELSE IF score <= 5 * ScoreScale THEN "moderate"
    ELSE IF score <= 7 * ScoreScale THEN "challenging"
    ELSE "extreme"

\* Number(x) >= n and Number(x) === n: false when x is NaN
GreaterEq(x, n) == ~x.nan /\ x.val >= n

StrictEq(x, n) == ~x.nan /\ x.val = n

\* mutant: pass 1 does not cut the extreme bucket off
weightKeepsExtreme(lab, allowed, pf, avoidExtreme) ==
    LET diff == scoreToDifficulty(lab.score)
    IN  IF diff \notin allowed THEN Infinity
        ELSE IF ~pf["steep"] /\ GreaterEq(lab.slope_class, 5) THEN Infinity
        ELSE IF ~pf["vertigo"] /\ lab.vertigo = "yes" THEN Infinity
        ELSE IF ~pf["uneven"] /\ StrictEq(lab.surface_score, 4) THEN Infinity
        ELSE IF ~pf["overgrowth"] /\ lab.natural = "scrub" THEN Infinity
        ELSE lab.cost

\* mutant: the steep ban starts above class 5
weightSteepAbove(lab, allowed, pf, avoidExtreme) ==
    LET diff == scoreToDifficulty(lab.score)
    IN  IF diff \notin allowed THEN Infinity
        ELSE IF avoidExtreme /\ diff = "extreme" THEN Infinity
        ELSE IF ~pf["steep"] /\ GreaterEq(lab.slope_class, 6) THEN Infinity
        ELSE IF ~pf["vertigo"] /\ lab.vertigo = "yes" THEN Infinity
        ELSE IF ~pf["uneven"] /\ StrictEq(lab.surface_score, 4) THEN Infinity
        ELSE IF ~pf["overgrowth"] /\ lab.natural = "scrub" THEN Infinity
        ELSE lab.cost

\* the function makeWeightFn(avoidExtreme) returns, applied to a label
weight(lab, allowed, pf, avoidExtreme) ==
    LET diff == scoreToDifficulty(lab.score)
    IN  IF diff \notin allowed THEN Infinity
        ELSE IF avoidExtreme /\ diff = "extreme" THEN Infinity
        ELSE IF ~pf["steep"] /\ GreaterEq(lab.slope_class, 5) THEN Infinity
        ELSE IF ~pf["vertigo"] /\ lab.vertigo = "yes" THEN Infinity
        ELSE IF ~pf["uneven"] /\ StrictEq(lab.surface_score, 4) THEN Infinity
        ELSE IF ~pf["overgrowth"] /\ lab.natural = "scrub" THEN Infinity
        ELSE lab.cost

\* mutant: pass 1 cuts the challenging bucket off as well
makeWeightFnAvoidsChallenging(G, chk, pf, avoidExtreme) ==
    [p \in DOMAIN G.edges |->
        IF avoidExtreme /\ scoreToDifficulty(G.edges[p].score) = "challenging"
        THEN Infinity
        ELSE weight(G.edges[p], getCheckedDifficulties(chk), pf, avoidExtreme)]

\* makeWeightFn(avoidExtreme) over the edges of the graph: it reads the
\* checkboxes when it is made
makeWeightFn(G, chk, pf, avoidExtreme) ==
    [p \in DOMAIN G.edges |->
        weight(G.edges[p], getCheckedDifficulties(chk), pf, avoidExtreme)]

(***************************************************************************)
(* graphlib.alg.dijkstra(g, source, weightFn, v => g.nodeEdges(v))         *)
(***************************************************************************)
\* position of a node in g.nodes()
IndexOf(G, v) == CHOOSE i \in DOMAIN G.nodes : G.nodes[i] = v

\* pq.removeMin(): a queued node of least distance, the earliest of g.nodes()
\* among equals
removeMin(G, results, pq) ==
    CHOOSE v \in pq : \A u \in pq :
        \/ results[v].distance < results[u].distance
        \/ results[v].distance = results[u].distance /\ IndexOf(G, v) <= IndexOf(G, u)

\* mutant: every passable edge weighs 1, as without a weight function
updateNeighborsUnit(G, w, results, v) ==
    [x \in DOMAIN results |->
        IF /\ hasEdge(G, v, x)
           /\ w[{v, x}] < Infinity
           /\ results[v].distance + 1 < results[x].distance
        THEN [distance |-> results[v].distance + 1, predecessor |-> v]
        ELSE results[x]]

\* edgeFn(v).forEach(updateNeighbors): every edge at v relaxes its other end
updateNeighbors(G, w, results, v) ==
    [x \in DOMAIN results |->
        IF hasEdge(G, v, x) /\ Plus(results[v].distance, w[{v, x}]) < results[x].distance
        THEN [distance |-> Plus(results[v].distance, w[{v, x}]), predecessor |-> v]
        ELSE results[x]]

RECURSIVE runDijkstra(_, _, _, _)
runDijkstra(G, w, results, pq) ==
    IF pq = {} THEN results
    ELSE LET v == removeMin(G, results, pq)
         IN  IF results[v].distance = Infinity THEN results
             ELSE runDijkstra(G, w, updateNeighbors(G, w, results, v), pq \ {v})

dijkstra(G, source, w) ==
    runDijkstra(G, w,
                [v \in NodeSet(G) |->
                    [distance |-> IF v = source THEN 0 ELSE Infinity, predecessor |-> Null]],
                NodeSet(G))

\* mutant: only a missing entry counts as unreached
UnreachedMissing(res, endKey) == endKey \notin DOMAIN res

\* mutant: a distance of zero counts as unreached too
UnreachedFalsy(res, endKey) ==
    endKey \notin DOMAIN res \/ res[endKey].distance >= Infinity \/ res[endKey].distance = 0

\* !endInfo || !isFinite(endInfo.distance)
Unreached(res, endKey) == endKey \notin DOMAIN res \/ res[endKey].distance >= Infinity

\* backtrack(prev, startKey, endKey)
RECURSIVE backtrackFrom(_, _, _, _)
backtrackFrom(prev, startKey, cur, path) ==
    IF cur # Null /\ cur # startKey
    THEN backtrackFrom(prev, startKey,
                       IF cur \in DOMAIN prev THEN prev[cur].predecessor ELSE Null,
                       Append(path, cur))
    ELSE IF cur = startKey THEN Append(path, startKey) ELSE path

reverse(s) == [i \in 1..Len(s) |-> s[Len(s) + 1 - i]]

\* mutant: the chain is returned end first
backtrackUnreversed(prev, startKey, endKey) == backtrackFrom(prev, startKey, endKey, <<>>)

backtrack(prev, startKey, endKey) == reverse(backtrackFrom(prev, startKey, endKey, <<>>))

\* pathLengthMeters(nodeKeys, nodeKeyToCoord)
RECURSIVE pathLengthFrom(_, _, _)
pathLengthFrom(nodeKeys, coordOf, i) ==
    IF i > Len(nodeKeys) - 1 THEN 0
    ELSE (IF nodeKeys[i] \in DOMAIN coordOf /\ nodeKeys[i + 1] \in DOMAIN coordOf
          THEN distance(coordOf[nodeKeys[i]], coordOf[nodeKeys[i + 1]])
          ELSE 0) + pathLengthFrom(nodeKeys, coordOf, i + 1)

\* mutant: the sum starts at the second node
pathLengthSkipsFirst(nodeKeys, coordOf) == pathLengthFrom(nodeKeys, coordOf, 2)

pathLengthMeters(nodeKeys, coordOf) == pathLengthFrom(nodeKeys, coordOf, 1)

\* formatDistance(meters): kilometers with two decimals from 1000 m on
formatDistance(meters) ==
    IF meters >= 1000 THEN [unit |-> "km", value |-> (meters + 5) \div 10]
    ELSE [unit |-> "m", value |-> meters]

\* hasExtremeOnPath(nodeKeys): some edge of the path has score >= EXTREME_MIN
hasExtremeOnPath(G, nodeKeys) ==
    \E i \in 1..(Len(nodeKeys) - 1) :
        /\ hasEdge(G, nodeKeys[i], nodeKeys[i + 1])
        /\ edge(G, nodeKeys[i], nodeKeys[i + 1]).score >= EXTREME_MIN * ScoreScale

(***************************************************************************)
(* Resolution: the part of the map click handler that runs once the end    *)
(* node is recorded                                                        *)
(***************************************************************************)
NoDist == [unit |-> "", value |-> 0]

\* a banner text without a length
Msg(kind) == [kind |-> kind, dist |-> NoDist, extreme |-> FALSE, warn |-> FALSE]

\* `Route length: ...` with its two advisories
RouteMsg(lenM, usedExtreme) ==
    [kind |-> "route", dist |-> formatDistance(lenM), extreme |-> usedExtreme,
     warn |-> lenM > ROUTE_WARN_M]

\* what a handler that does not resolve leaves in the trace
Trace(event, branch) ==
    [event |-> event, branch |-> branch, preCheck |-> FALSE, solverCalls |-> 0,
     pass1Reached |-> FALSE, pass2Reached |-> FALSE, outcome |-> "none",
     path |-> <<>>, lenM |-> 0, usedExtreme |-> FALSE, msg |-> Msg("")]

\* a drawn route of pass 1 or pass 2
Routed(calls, outcome, path, coordOf, usedExtreme) ==
    LET lenM == pathLengthMeters(path, coordOf)
    IN  [event |-> "click", branch |-> "end", preCheck |-> TRUE, solverCalls |-> calls,
         pass1Reached |-> calls = 1, pass2Reached |-> calls = 2, outcome |-> outcome,
         path |-> path, lenM |-> lenM, usedExtreme |-> usedExtreme,
         msg |-> RouteMsg(lenM, usedExtreme)]

\* a resolution that draws nothing
Failed(calls, kind) ==
    [Trace("click", "end") EXCEPT !.preCheck = TRUE, !.solverCalls = calls,
                                  !.outcome = kind, !.msg = Msg(kind)]

\* mutant: the pre-check compares the start node with itself
DisconnectedSelf(C, s, e) == compIdx(C, s) # compIdx(C, s)

\* compIdx(startNode) !== compIdx(endNode)
Disconnected(C, s, e) == compIdx(C, s) # compIdx(C, e)

\* mutant: the gate of pass 2 reads the wrong checkbox
extremeAllowedEasy(chk) == "easy" \in getCheckedDifficulties(chk)

\* allowed.has('extreme')
extremeAllowed(chk) == "extreme" \in getCheckedDifficulties(chk)

Resolve(G, C, coordOf, s, e, chk, pf) ==
    IF Disconnected(C, s, e) THEN Failed(0, "disconnected")
    ELSE LET res1 == dijkstra(G, s, makeWeightFn(G, chk, pf, TRUE))
         IN  IF Unreached(res1, e)
             THEN IF ~extremeAllowed(chk)
                  THEN Failed(1, "noRoutePrefs")
                  ELSE LET res2 == dijkstra(G, s, makeWeightFn(G, chk, pf, FALSE))
                           path2 == backtrack(res2, s, e)
                       IN  IF Unreached(res2, e) THEN Failed(2, "noPathFound")
                           ELSE Routed(2, "route2", path2, coordOf,
                                       hasExtremeOnPath(G, path2))
             ELSE Routed(1, "route1", backtrack(res1, s, e), coordOf, FALSE)

(***************************************************************************)
(* Graphics and banner helpers                                             *)
(***************************************************************************)
NoMarkers == [start |-> Null, end |-> Null]

\* drawPath(nodeKeys): the coordinates of the keys the table knows
RECURSIVE drawPath(_, _)
drawPath(nodeKeys, coordOf) ==
    IF nodeKeys = <<>> THEN <<>>
    ELSE (IF Head(nodeKeys) \in DOMAIN coordOf THEN <<coordOf[Head(nodeKeys)]>> ELSE <<>>)
         \o drawPath(Tail(nodeKeys), coordOf)

\* showRouteHint(msg)
showRouteHint(el, msg) == [el EXCEPT !.textContent = msg, !.hidden = FALSE]

\* hideRouteHint(): the element changes only when the timeout fires
hideRouteHint(el) == el

\* mutant: the listeners are registered at page load
HandlersInstalledAtLoad == TRUE

\* the Start / Clear / map click listeners of routing are registered at the
\* end of the then-callback, after the build
HandlersInstalled == fetchState = "built"

(***************************************************************************)
(* Initial state                                                           *)
(***************************************************************************)
NoProbe == [lab |-> SegmentLabel(Line(<<>>, Plain(NaN)), 0, 0), allowed |-> {},
            pf |-> [p \in PrefIds |-> TRUE], avoidExtreme |-> FALSE,
            out |-> 0, done |-> TRUE]

\* everything but the input: the page as loaded, the fetch under way
PageLoaded ==
    /\ fetchState = "pending"
    /\ g = EmptyGraph
    /\ nodeKeyToCoord = <<>>
    /\ comps = <<>>
    /\ routingActive = FALSE
    /\ startNode = Null
    /\ endNode = Null
    /\ checked = [l \in Levels |-> TRUE]
    /\ pref = [p \in PrefIds |-> TRUE]
    /\ hintEl = [textContent |-> Msg(""), hidden |-> TRUE]
    /\ hideTimers = 0
    /\ routeLine = <<>>
    /\ markers = NoMarkers
    /\ last = Trace("load", "none")

Init ==
    /\ features \in DOMAIN Collections
    /\ probe = NoProbe
    /\ PageLoaded

(***************************************************************************)
(* Fetch                                                                   *)
(***************************************************************************)
\* the second then-callback: build, components, handlers; an exception of
\* the build reaches the catch handler before any handler is installed
FetchThen ==
    /\ fetchState = "pending"
    /\ LET B == BuildGraph(Collections[features])
       IN  IF B.thrown
           THEN /\ fetchState' = "failed"
                /\ UNCHANGED <<g, nodeKeyToCoord, comps>>
           ELSE /\ fetchState' = "built"
                /\ g' = B.g
                /\ nodeKeyToCoord' = B.nodeKeyToCoord
                /\ comps' = components(B.g)
    /\ routingActive' = FALSE
    /\ last' = Trace("fetch", "then")
    /\ UNCHANGED <<features, startNode, endNode, checked, pref, hintEl,
                   hideTimers, routeLine, markers, probe>>

\* mutant: the listeners are registered although the fetch failed
FetchCatchInstalls ==
    /\ fetchState = "pending"
    /\ fetchState' = "built"
    /\ last' = Trace("fetch", "catch")
    /\ UNCHANGED <<features, g, nodeKeyToCoord, comps, routingActive, startNode, endNode,
                   checked, pref, hintEl, hideTimers, routeLine, markers,
                   probe>>

\* network error or non-OK status: only the catch handler runs
FetchCatch ==
    /\ fetchState = "pending"
    /\ fetchState' = "failed"
    /\ last' = Trace("fetch", "catch")
    /\ UNCHANGED <<features, g, nodeKeyToCoord, comps, routingActive, startNode, endNode,
                   checked, pref, hintEl, hideTimers, routeLine, markers,
                   probe>>

(***************************************************************************)
(* Start / Clear buttons (both pairs of listeners run on one press)        *)
(***************************************************************************)
\* an event dispatched while its listeners are not registered
NoHandler(event) ==
    /\ last' = Trace(event, "nohandler")
    /\ UNCHANGED <<features, fetchState, g, nodeKeyToCoord, comps, routingActive,
                   startNode, endNode, checked, pref, hintEl, hideTimers, routeLine,
                   markers, probe>>

\* mutant: Start does not clear the route graphics
StartPressKeepsRoute ==
    IF ~HandlersInstalled THEN NoHandler("start")
    ELSE /\ routingActive' = TRUE
         /\ startNode' = Null
         /\ endNode' = Null
         /\ hintEl' = showRouteHint(showRouteHint(hintEl, Msg("clickStart")),
                                    Msg("clickStart"))
         /\ last' = Trace("start", "none")
         /\ UNCHANGED <<features, fetchState, g, nodeKeyToCoord, comps, checked, pref,
                        hideTimers, routeLine, markers, probe>>

\* mutant: Start resets the start node only
StartPressKeepsEnd ==
    IF ~HandlersInstalled THEN NoHandler("start")
    ELSE /\ routingActive' = TRUE
         /\ startNode' = Null
         /\ routeLine' = <<>>
         /\ markers' = NoMarkers
         /\ hintEl' = showRouteHint(showRouteHint(hintEl, Msg("clickStart")),
                                    Msg("clickStart"))
         /\ last' = Trace("start", "none")
         /\ UNCHANGED <<features, fetchState, g, nodeKeyToCoord, comps, endNode, checked,
                        pref, hideTimers, probe>>

StartPress ==
    IF ~HandlersInstalled THEN NoHandler("start")
    ELSE /\ routingActive' = TRUE
         /\ startNode' = Null
         /\ endNode' = Null
         /\ routeLine' = <<>>
         /\ markers' = NoMarkers
         /\ hintEl' = showRouteHint(showRouteHint(hintEl, Msg("clickStart")),
                                    Msg("clickStart"))
         /\ last' = Trace("start", "none")
         /\ UNCHANGED <<features, fetchState, g, nodeKeyToCoord, comps, checked, pref,
                        hideTimers, probe>>

\* mutant: Clear leaves the selection mode but keeps the endpoints and graphics
ClearPressKeepsRoute ==
    IF ~HandlersInstalled THEN NoHandler("clear")
    ELSE /\ hideTimers + 2 <= MaxTimers
         /\ routingActive' = FALSE
         /\ hideTimers' = hideTimers + 2
         /\ last' = Trace("clear", "none")
         /\ UNCHANGED <<features, fetchState, g, nodeKeyToCoord, comps, startNode,
                        endNode, routeLine, markers, hintEl, checked, pref, probe>>

ClearPress ==
    IF ~HandlersInstalled THEN NoHandler("clear")
    ELSE /\ hideTimers + 2 <= MaxTimers
         /\ routingActive' = FALSE
         /\ startNode' = Null
         /\ endNode' = Null
         /\ routeLine' = <<>>
         /\ markers' = NoMarkers
         /\ hintEl' = hideRouteHint(hideRouteHint(hintEl))
         /\ hideTimers' = hideTimers + 2
         /\ last' = Trace("clear", "none")
         /\ UNCHANGED <<features, fetchState, g, nodeKeyToCoord, comps, checked, pref,
                        probe>>

\* setTimeout(() => { hintEl.hidden = true; hintEl.textContent = ''; }, 180)
HideTimeout ==
    /\ hideTimers > 0
    /\ hideTimers' = hideTimers - 1
    /\ hintEl' = [hintEl EXCEPT !.hidden = TRUE, !.textContent = Msg("")]
    /\ UNCHANGED <<features, fetchState, g, nodeKeyToCoord, comps, routingActive,
                   startNode, endNode, checked, pref, routeLine, markers,
                   probe, last>>

(***************************************************************************)
(* Map click handler for routing                                           *)
(***************************************************************************)
\* first click: the start node
ClickStart(node) ==
    /\ startNode' = node
    /\ routeLine' = <<>>
    /\ markers' = [NoMarkers EXCEPT !.start = nodeKeyToCoord[node]]
    /\ hintEl' = showRouteHint(hintEl, Msg("clickEnd"))
    /\ last' = Trace("click", "start")
    /\ UNCHANGED <<routingActive, endNode>>

\* mutant: the resolution reads endNode as it was before the click
ClickEndStaleEnd(node) ==
    \E r \in {Resolve(g, comps, nodeKeyToCoord, startNode, endNode, checked, pref)} :
        /\ endNode' = node
        /\ markers' = [markers EXCEPT !.end = nodeKeyToCoord[node]]
        /\ routeLine' = IF r.outcome \in {"route1", "route2"}
                        THEN drawPath(r.path, nodeKeyToCoord)
                        ELSE routeLine
        /\ hintEl' = showRouteHint(hintEl, r.msg)
        /\ last' = r
        /\ UNCHANGED <<routingActive, startNode>>

\* second click: the end node, then the resolution
ClickEnd(node) ==
    \E r \in {Resolve(g, comps, nodeKeyToCoord, startNode, node, checked, pref)} :
        /\ endNode' = node
        /\ markers' = [markers EXCEPT !.end = nodeKeyToCoord[node]]
        /\ routeLine' = IF r.outcome \in {"route1", "route2"}
                        THEN drawPath(r.path, nodeKeyToCoord)
                        ELSE routeLine
        /\ hintEl' = showRouteHint(hintEl, r.msg)
        /\ last' = r
        /\ UNCHANGED <<routingActive, startNode>>

\* mutant: the restart keeps the drawn route and the end marker
ClickRestartKeepsRoute(node) ==
    /\ startNode' = node
    /\ endNode' = Null
    /\ routeLine' = routeLine
    /\ markers' = [markers EXCEPT !.start = nodeKeyToCoord[node]]
    /\ hintEl' = showRouteHint(hintEl, Msg("clickEnd"))
    /\ last' = Trace("click", "restart")
    /\ UNCHANGED routingActive

\* third click: restart with a new start node
ClickRestart(node) ==
    /\ startNode' = node
    /\ endNode' = Null
    /\ routeLine' = <<>>
    /\ markers' = [NoMarkers EXCEPT !.start = nodeKeyToCoord[node]]
    /\ hintEl' = showRouteHint(hintEl, Msg("clickEnd"))
    /\ last' = Trace("click", "restart")
    /\ UNCHANGED routingActive

\* mutant: a click the handler does not use puts the start prompt on the banner
ClickIgnoredShowsHint(branch) ==
    /\ last' = Trace("click", branch)
    /\ hintEl' = showRouteHint(hintEl, Msg("clickStart"))
    /\ UNCHANGED <<routingActive, startNode, endNode, routeLine, markers>>

\* a handler that returns at once
ClickIgnored(branch) ==
    /\ last' = Trace("click", branch)
    /\ UNCHANGED <<routingActive, startNode, endNode, routeLine, markers, hintEl>>

\* mutant: a click with both endpoints set records a new end node
ClickBranchNoRestart(active, node, s, e) ==
    IF ~active THEN "inactive"
    ELSE IF node = Null THEN "nonode"
    ELSE IF s = Null THEN "start"
    ELSE "end"

\* which branch of the handler a click takes
ClickBranch(active, node, s, e) ==
    IF ~active THEN "inactive"
    ELSE IF node = Null THEN "nonode"
    ELSE IF s = Null THEN "start"
    ELSE IF e = Null THEN "end"
    ELSE "restart"

\* mutant: the end click removes the edges that pass 1 may not use
MapClickPrunes(c) ==
    IF ~HandlersInstalled THEN NoHandler("click")
    ELSE \E node \in {nearestNodeTo(g, nodeKeyToCoord, c)} :
         LET branch == ClickBranch(routingActive, node, startNode, endNode)
             w == makeWeightFn(g, checked, pref, TRUE)
         IN  /\ CASE branch = "start" -> ClickStart(node)
                   [] branch = "end" -> ClickEnd(node)
                   [] branch = "restart" -> ClickRestart(node)
                   [] OTHER -> ClickIgnored(branch)
             /\ g' = IF branch = "end"
                     THEN [g EXCEPT !.edges = [p \in {q \in DOMAIN g.edges : w[q] < Infinity}
                                                  |-> g.edges[p]]]
                     ELSE g
             /\ UNCHANGED <<features, fetchState, nodeKeyToCoord, comps, checked,
                            pref, hideTimers, probe>>

MapClick(c) ==
    IF ~HandlersInstalled THEN NoHandler("click")
    ELSE \E node \in {nearestNodeTo(g, nodeKeyToCoord, c)} :
         LET branch == ClickBranch(routingActive, node, startNode, endNode)
         IN  /\ CASE branch = "start" -> ClickStart(node)
                   [] branch = "end" -> ClickEnd(node)
                   [] branch = "restart" -> ClickRestart(node)
                   [] OTHER -> ClickIgnored(branch)
             /\ UNCHANGED <<features, fetchState, g, nodeKeyToCoord, comps, checked,
                            pref, hideTimers, probe>>

(***************************************************************************)
(* Checkboxes                                                              *)
(***************************************************************************)
LevelIndex(level) == CHOOSE i \in DOMAIN difficultyOrder : difficultyOrder[i] = level

\* mutant: the change handler leaves the other boxes as they are
DifficultyChangedOnlyBox(chk, level, isChecked) ==
    [l \in Levels |-> IF l = level THEN isChecked ELSE chk[l]]

\* the change handler of a difficulty checkbox, after the box took the
\* value isChecked
DifficultyChanged(chk, level, isChecked) ==
    LET idx == LevelIndex(level)
    IN  [l \in Levels |->
            IF l = level THEN isChecked
            ELSE IF ~isChecked /\ LevelIndex(l) > idx THEN FALSE
            ELSE IF isChecked /\ LevelIndex(l) < idx THEN TRUE
            ELSE chk[l]]

\* the user toggles a difficulty checkbox (applyFilter only restyles layers)
ChangeDifficulty(level) ==
    /\ checked' = DifficultyChanged(checked, level, ~checked[level])
    /\ last' = Trace("change", "none")
    /\ UNCHANGED <<features, fetchState, g, nodeKeyToCoord, comps, routingActive,
                   startNode, endNode, pref, hintEl, hideTimers, routeLine,
                   markers, probe>>

\* mutant: a preference change resolves the current pair again
ChangePrefReroutes(id) ==
    /\ pref' = [pref EXCEPT ![id] = ~@]
    /\ Cardinality({p \in PrefIds : ~pref'[p]}) <= MaxBans
    /\ last' = Trace("change", "none")
    /\ routeLine' =
           IF endNode = Null THEN routeLine
           ELSE LET r == Resolve(g, comps, nodeKeyToCoord, startNode, endNode,
                                 checked, pref')
                IN  IF r.outcome \in {"route1", "route2"}
                    THEN drawPath(r.path, nodeKeyToCoord)
                    ELSE <<>>
    /\ UNCHANGED <<features, fetchState, g, nodeKeyToCoord, comps, routingActive,
                   startNode, endNode, checked, hintEl, hideTimers, markers, probe>>

\* the user toggles a hazard preference checkbox
ChangePref(id) ==
    /\ pref' = [pref EXCEPT ![id] = ~@]
    /\ Cardinality({p \in PrefIds : ~pref'[p]}) <= MaxBans
    /\ last' = Trace("change", "none")
    /\ UNCHANGED <<features, fetchState, g, nodeKeyToCoord, comps, routingActive,
                   startNode, endNode, checked, hintEl, hideTimers, routeLine,
                   markers, probe>>

(***************************************************************************)
(* Specification                                                           *)
(***************************************************************************)
Next ==
    \/ FetchThen
    \/ FetchCatch
    \/ StartPress
    \/ ClearPress
    \/ HideTimeout
    \/ \E c \in 0..MaxPos : MapClick(c)
    \/ \E level \in Levels : ChangeDifficulty(level)
    \/ \E id \in PrefIds : ChangePref(id)

Spec == Init /\ [][Next]_vars

(***************************************************************************)
(* The weight function on its own: one evaluation for every label and      *)
(* every preference snapshot                                               *)
(***************************************************************************)
ProbeScores == {6, 7, 10, 14, 15, 16}

ProbeNumbers == {NaN, Num(4), Num(5)}

ProbeLabels ==
    [cost : {30}, score : ProbeScores, slope_class : ProbeNumbers,
     vertigo : {"yes", "no", ""}, surface_score : ProbeNumbers,
     natural : {"scrub", ""}]

InitWeight ==
    /\ features = Len(Collections)
    /\ probe \in [lab : ProbeLabels, allowed : SUBSET Levels,
                   pf : [PrefIds -> BOOLEAN], avoidExtreme : BOOLEAN,
                   out : {0}, done : {FALSE}]
    /\ PageLoaded

\* weightFn(e) for the probed label under the probed snapshot
ApplyWeight ==
    /\ ~probe.done
    /\ probe' = [probe EXCEPT !.out = weight(probe.lab, probe.allowed, probe.pf,
                                             probe.avoidExtreme),
                              !.done = TRUE]
    /\ UNCHANGED <<features, fetchState, g, nodeKeyToCoord, comps, routingActive,
                   startNode, endNode, checked, pref, hintEl, hideTimers, routeLine,
                   markers, last>>

SpecWeight == InitWeight /\ [][ApplyWeight]_vars

(***************************************************************************)
(* The build loop on its own: routingFC.features.forEach, one feature per  *)
(* step, over every order of the features of every collection              *)
(***************************************************************************)
\* the orders in which a collection may list its features
Orders(fs) ==
    {[i \in 1..Len(fs) |-> fs[pi[i]]] : pi \in Permutations(1..Len(fs))}

InitBuild ==
    /\ features \in DOMAIN Collections
    /\ probe \in {[order |-> o, next |-> 1] : o \in Orders(Collections[features])}
    /\ PageLoaded

\* one call of the forEach callback; an exception ends the loop and leaves
\* the callback before g is used
ForEachStep ==
    /\ fetchState = "pending"
    /\ probe.next <= Len(probe.order)
    /\ \E B \in {AddFeature([g |-> g, nodeKeyToCoord |-> nodeKeyToCoord, thrown |-> FALSE],
                             probe.order[probe.next])} :
           IF B.thrown
           THEN /\ fetchState' = "failed"
                /\ UNCHANGED <<g, nodeKeyToCoord>>
           ELSE /\ g' = B.g
                /\ nodeKeyToCoord' = B.nodeKeyToCoord
                /\ UNCHANGED fetchState
    /\ probe' = [probe EXCEPT !.next = @ + 1]
    /\ UNCHANGED <<features, comps, routingActive, startNode, endNode, checked, pref,
                   hintEl, hideTimers, routeLine, markers, last>>

SpecBuild == InitBuild /\ [][ForEachStep]_vars

(***************************************************************************)
(* Reference notions for the properties, defined on the graph itself and   *)
(* not through the solver or the component index                           *)
(***************************************************************************)
\* the handler that ran last recorded the end node and resolved
Resolved == last.event = "click" /\ last.branch = "end"

\* the resolution drew a route
Drawn == Resolved /\ last.outcome \in {"route1", "route2"}

\* the simple paths of G from s to e, as node sequences
SimplePaths(G, s, e) ==
    {p \in UNION {[1..n -> NodeSet(G)] : n \in 1..Cardinality(NodeSet(G))} :
        /\ p[1] = s
        /\ p[Len(p)] = e
        /\ \A i, j \in 1..Len(p) : i # j => p[i] # p[j]
        /\ \A i \in 1..(Len(p) - 1) : hasEdge(G, p[i], p[i + 1])}

\* the edges of a node sequence
EdgesOf(p) == {{p[i], p[i + 1]} : i \in 1..(Len(p) - 1)}

\* the sum of the weights w along a node sequence
RECURSIVE PathWeight(_, _, _)
PathWeight(w, p, i) ==
    IF i > Len(p) - 1 THEN 0 ELSE Plus(w[{p[i], p[i + 1]}], PathWeight(w, p, i + 1))

\* the paths from s to e all of whose edges have a finite weight under w
Passable(G, w, s, e) == {p \in SimplePaths(G, s, e) : \A ed \in EdgesOf(p) : w[ed] < Infinity}

\* the weight functions of the two passes under the checkboxes as they are
W1 == makeWeightFn(g, checked, pref, TRUE)

W2 == makeWeightFn(g, checked, pref, FALSE)

\* an edge of the extreme difficulty bucket: score > 7
ExtremeEdge(ed) == g.edges[ed].score > 7 * ScoreScale

(***************************************************************************)
(* C1: when the start node and the end node lie in different connected     *)
(* components (no path of the graph joins them), the resolution shows the  *)
(* 'disconnected' message and calls the solver zero times.                 *)
(***************************************************************************)
C1_DisconnectedShortCircuits ==
    (Resolved /\ SimplePaths(g, startNode, endNode) = {})
        => /\ last.outcome = "disconnected"
           /\ last.msg = Msg("disconnected")
           /\ last.solverCalls = 0
           /\ routeLine = <<>>

C1_Witness ==
    /\ Resolved
    /\ SimplePaths(g, startNode, endNode) = {}
    /\ last.outcome = "disconnected"
    /\ hintEl.textContent = Msg("disconnected")

(***************************************************************************)
(* C2: a drawn route is a passable walk: it starts at the start node, ends *)
(* at the end node, every consecutive pair of its nodes is an edge of the  *)
(* graph, and the weight function of the pass that produced it gives every *)
(* one of those edges a finite cost.                                       *)
(***************************************************************************)
C2_DrawnRouteIsPassableWalk ==
    Drawn =>
        LET p == last.path
            w == IF last.outcome = "route1" THEN W1 ELSE W2
        IN  /\ Len(p) >= 1
            /\ p[1] = startNode
            /\ p[Len(p)] = endNode
            /\ \A i \in 1..(Len(p) - 1) :
                   hasEdge(g, p[i], p[i + 1]) /\ w[{p[i], p[i + 1]}] < Infinity
            /\ routeLine = [i \in 1..Len(p) |-> nodeKeyToCoord[p[i]]]

C2_Witness ==
    /\ Drawn
    /\ Len(last.path) >= 3
    /\ \E ed \in DOMAIN g.edges : W2[ed] = Infinity

(***************************************************************************)
(* C3: when pass 1 (avoidExtreme = true) reaches the end node, its path is *)
(* the result, pass 2 is not run, usedExtreme is false and no edge of the  *)
(* reported path has a score above 7.                                      *)
(***************************************************************************)
C3_Pass1ResultHasNoExtreme ==
    (Resolved /\ Passable(g, W1, startNode, endNode) # {})
        => /\ last.outcome = "route1"
           /\ last.solverCalls = 1
           /\ ~last.usedExtreme
           /\ ~last.msg.extreme
           /\ last.path \in Passable(g, W1, startNode, endNode)
           /\ \A ed \in EdgesOf(last.path) : ~ExtremeEdge(ed)

C3_Witness ==
    /\ Resolved
    /\ last.outcome = "route1"
    /\ Len(last.path) >= 2
    /\ \E p \in SimplePaths(g, startNode, endNode) : \E ed \in EdgesOf(p) : ExtremeEdge(ed)

(***************************************************************************)
(* C4: when pass 1 does not reach the end node and 'extreme' is not among  *)
(* the allowed difficulties, the resolution shows 'no route under current  *)
(* preferences' and the solver is not called a second time.                *)
(***************************************************************************)
C4_NoSecondPassWithoutExtreme ==
    (/\ Resolved
     /\ SimplePaths(g, startNode, endNode) # {}
     /\ Passable(g, W1, startNode, endNode) = {}
     /\ ~checked["extreme"])
        => /\ last.outcome = "noRoutePrefs"
           /\ last.msg = Msg("noRoutePrefs")
           /\ last.solverCalls = 1
           /\ routeLine = <<>>

C4_Witness ==
    /\ Resolved
    /\ last.outcome = "noRoutePrefs"
    /\ ~checked["extreme"]
    /\ hintEl.textContent = Msg("noRoutePrefs")

(***************************************************************************)
(* C5: when some path joins start and end, every such path traverses an    *)
(* edge of score > 7, and the extreme bucket and all hazards are allowed,  *)
(* pass 1 fails, pass 2 reaches the end node and the result is marked      *)
(* usedExtreme.                                                            *)
(***************************************************************************)
C5_ExtremeOnlyRouteIsMarked ==
    (/\ Resolved
     /\ SimplePaths(g, startNode, endNode) # {}
     /\ \A p \in SimplePaths(g, startNode, endNode) : \E ed \in EdgesOf(p) : ExtremeEdge(ed)
     /\ checked["extreme"]
     /\ \A id \in PrefIds : pref[id])
        => /\ last.outcome = "route2"
           /\ last.solverCalls = 2
           /\ last.usedExtreme
           /\ last.msg.extreme

(***************************************************************************)
(* C6: on the graph A-B (10 m, score 2), B-C (10 m, score 9) with every    *)
(* bucket and hazard allowed, resolving A to C fails in pass 1, succeeds   *)
(* in pass 2 with the nodes A, B, C, reports 20 m and sets usedExtreme.    *)
(***************************************************************************)
ScenarioGraph ==
    /\ DOMAIN g.edges = {{0, 2}, {2, 4}}
    /\ g.edges[{0, 2}].score = 2 * ScoreScale
    /\ g.edges[{2, 4}].score = 9 * ScoreScale
    /\ distance(nodeKeyToCoord[0], nodeKeyToCoord[2]) = 10
    /\ distance(nodeKeyToCoord[2], nodeKeyToCoord[4]) = 10

C6_Scenario ==
    (/\ Resolved
     /\ ScenarioGraph
     /\ startNode = 0
     /\ endNode = 4
     /\ \A l \in Levels : checked[l]
     /\ \A id \in PrefIds : pref[id])
        => /\ last.outcome = "route2"
           /\ last.solverCalls = 2
           /\ last.path = <<0, 2, 4>>
           /\ last.lenM = 20
           /\ last.msg.dist = [unit |-> "m", value |-> 20]
           /\ last.usedExtreme
           /\ routeLine = <<0, 2, 4>>

C6_Witness ==
    /\ Resolved
    /\ ScenarioGraph
    /\ startNode = 0
    /\ endNode = 4
    /\ \A l \in Levels : checked[l]
    /\ \A id \in PrefIds : pref[id]
    /\ last.outcome = "route2"

(***************************************************************************)
(* C7: the weight function returns Infinity exactly when the bucket of the *)
(* edge is not allowed, or avoidExtreme holds and the bucket is extreme,   *)
(* or a permission is off and its hazard is on the edge (slope_class >= 5, *)
(* vertigo = 'yes', surface_score = 4, natural = 'scrub'); otherwise it    *)
(* returns the cost of the edge. Checked under SpecWeight.                 *)
(***************************************************************************)
Bucket(score) ==
    CASE score > 7 * ScoreScale -> "extreme"
      [] score > 5 * ScoreScale /\ score <= 7 * ScoreScale -> "challenging"
      [] score > 3 * ScoreScale /\ score <= 5 * ScoreScale -> "moderate"
      [] OTHER -> "easy"

HazardBanned(lab, pf) ==
    \/ ~pf["steep"] /\ ~lab.slope_class.nan /\ lab.slope_class.val >= 5
    \/ ~pf["vertigo"] /\ lab.vertigo = "yes"
    \/ ~pf["uneven"] /\ ~lab.surface_score.nan /\ lab.surface_score.val = 4
    \/ ~pf["overgrowth"] /\ lab.natural = "scrub"

Gated(lab, allowed, pf, avoidExtreme) ==
    \/ Bucket(lab.score) \notin allowed
    \/ avoidExtreme /\ Bucket(lab.score) = "extreme"
    \/ HazardBanned(lab, pf)

C7_GatingCorrectness ==
    probe.done =>
        /\ probe.out = Infinity
              <=> Gated(probe.lab, probe.allowed, probe.pf, probe.avoidExtreme)
        /\ ~Gated(probe.lab, probe.allowed, probe.pf, probe.avoidExtreme)
              => probe.out = probe.lab.cost

C7_Witness ==
    /\ probe.done
    /\ probe.out = Infinity
    /\ Bucket(probe.lab.score) \in probe.allowed
    /\ ~probe.avoidExtreme
    /\ probe.lab.slope_class = Num(5)
    /\ ~probe.pf["steep"]
    /\ probe.pf["vertigo"] /\ probe.pf["uneven"] /\ probe.pf["overgrowth"]

(***************************************************************************)
(* C8: 'no route under current preferences' is shown exactly when pass 1   *)
(* failed and pass 2 was skipped because extreme is not allowed; 'no path  *)
(* found' exactly when pass 2 was run and failed as well.                  *)
(***************************************************************************)
Pass1Fails ==
    /\ SimplePaths(g, startNode, endNode) # {}
    /\ Passable(g, W1, startNode, endNode) = {}

C8_FailureMessagesDistinguished ==
    Resolved =>
        /\ last.msg.kind = "noRoutePrefs"
              <=> (Pass1Fails /\ ~checked["extreme"])
        /\ last.msg.kind = "noRoutePrefs" => last.solverCalls = 1
        /\ last.msg.kind = "noPathFound"
              <=> (/\ Pass1Fails
                   /\ checked["extreme"]
                   /\ Passable(g, W2, startNode, endNode) = {})
        /\ last.msg.kind = "noPathFound" => last.solverCalls = 2
        /\ hintEl.textContent \in {last.msg, Msg("")}

C8_Witness ==
    /\ Resolved
    /\ last.msg.kind = "noPathFound"
    /\ hintEl.textContent = Msg("noPathFound")
    /\ last.solverCalls = 2

(***************************************************************************)
(* C9: the total weight of a reported path is the least sum of weights     *)
(* over the start-to-end paths whose edges are all finite under the        *)
(* weight function of the pass that produced it.                           *)
(***************************************************************************)
C9_ReportedPathIsCheapest ==
    Drawn =>
        LET w == IF last.outcome = "route1" THEN W1 ELSE W2
        IN  /\ PathWeight(w, last.path, 1) < Infinity
            /\ \A p \in Passable(g, w, startNode, endNode) :
                   PathWeight(w, last.path, 1) <= PathWeight(w, p, 1)

C9_Witness ==
    /\ Drawn
    /\ \E p \in Passable(g, IF last.outcome = "route1" THEN W1 ELSE W2, startNode, endNode) :
           /\ Len(p) < Len(last.path)
           /\ PathWeight(W2, p, 1) > PathWeight(W2, last.path, 1)

(***************************************************************************)
(* C10: the connectivity pre-check and the solver run only in the map      *)
(* click that records the end node: the first click after Start records    *)
(* only the start node, and neither a first click, a restart click, the    *)
(* Start button nor the Clear button triggers a solve.                     *)
(***************************************************************************)
Solves == last'.preCheck \/ last'.solverCalls > 0

\* a step in which an event handler ran and left a new trace
Handled(event) == last' # last /\ last'.event = event

C10_SolveOnlyOnEndClick ==
    [][/\ (last' # last /\ Solves)
             => (/\ last'.event = "click"
                 /\ routingActive
                 /\ startNode # Null /\ startNode' = startNode
                 /\ endNode = Null /\ endNode' # Null)
       /\ (Handled("click") /\ routingActive /\ startNode = Null
              /\ last'.branch # "nonode")
             => (startNode' # Null /\ endNode' = Null /\ ~Solves)
       /\ (Handled("start") \/ Handled("clear"))
             => (startNode' = Null /\ endNode' = Null /\ ~Solves)]_vars

C10_Witness ==
    /\ Resolved
    /\ last.solverCalls = 2
    /\ endNode # Null

(***************************************************************************)
(* C11: in a state in which both endpoints are set, whatever the outcome   *)
(* of the resolution was, a map click makes the node nearest to the click  *)
(* the new start node, clears the end node, removes the route line and the *)
(* end marker, leaves only the marker of the new start, runs no solve and  *)
(* keeps routingActive true throughout.                                    *)
(***************************************************************************)
C11_RestartClick ==
    [][(Handled("click") /\ startNode # Null /\ endNode # Null)
          => /\ routingActive /\ routingActive'
             /\ \E c \in 0..MaxPos : startNode' = nearestNodeTo(g, nodeKeyToCoord, c)
             /\ endNode' = Null
             /\ routeLine' = <<>>
             /\ markers' = [start |-> nodeKeyToCoord[startNode'], end |-> Null]
             /\ last'.branch = "restart"
             /\ ~Solves]_vars

C11_Witness ==
    /\ last.event = "click"
    /\ last.branch = "restart"
    /\ routingActive
    /\ startNode # Null
    /\ endNode = Null
    /\ routeLine = <<>>
    /\ markers = [start |-> nodeKeyToCoord[startNode], end |-> Null]

(***************************************************************************)
(* C12: whatever the state in which Clear is pressed, the press leaves the *)
(* session Idle: routingActive is false, startNode and endNode are null,   *)
(* and neither the route line nor a start or end marker is on the map.     *)
(***************************************************************************)
Idle ==
    /\ ~routingActive
    /\ startNode = Null
    /\ endNode = Null
    /\ routeLine = <<>>
    /\ markers = NoMarkers

C12_ClearLeadsToIdle == last.event = "clear" => Idle

\* Clear was pressed while the banner reported a drawn route
C12_Witness ==
    /\ last = Trace("clear", "none")
    /\ hintEl.textContent.kind = "route"
    /\ ~hintEl.hidden
    /\ Idle

(***************************************************************************)
(* C13: after a failed resolution (disconnected, no route under the        *)
(* current preferences, no path found) the banner shows the failure        *)
(* message, and it stays visible and unchanged until the user acts again,  *)
(* whatever hide callbacks are still pending. The trace last changes with  *)
(* every user event and with nothing else, so 'the failed resolution is    *)
(* the most recent event' is 'the user has not acted again'.               *)
(***************************************************************************)
FailureKinds == {"disconnected", "noRoutePrefs", "noPathFound"}

C13_FailureMessageStays ==
    (Resolved /\ last.outcome \in FailureKinds)
        => /\ ~hintEl.hidden
           /\ hintEl.textContent = Msg(last.outcome)

(***************************************************************************)
(* C14: as long as the graph build has not completed (the fetch is pending *)
(* or has failed), routingActive, startNode and endNode have their initial *)
(* values, nothing is drawn, no pre-check and no solver call has run, and  *)
(* a Start press, a Clear press or a map click finds no listener.          *)
(***************************************************************************)
C14_NoRoutingBeforeBuild ==
    fetchState # "built"
        => /\ ~routingActive
           /\ startNode = Null
           /\ endNode = Null
           /\ routeLine = <<>>
           /\ markers = NoMarkers
           /\ ~last.preCheck
           /\ last.solverCalls = 0
           /\ last.event \in {"start", "clear", "click"} => last.branch = "nohandler"

\* a Start press came while the fetch was pending
C14_Witness ==
    /\ fetchState = "pending"
    /\ last = Trace("start", "nohandler")
    /\ ~routingActive

(***************************************************************************)
(* Reference notions for the build: the segments of the input, taken from  *)
(* the features and not from the graph                                     *)
(***************************************************************************)
\* the vertices of a feature, flattened and normalised
VerticesOf(f) ==
    LET raw == IF f.geometry.type = "MultiLineString"
               THEN flat(f.geometry.coordinates)
               ELSE f.geometry.coordinates
    IN  [i \in DOMAIN raw |-> toFixed7(raw[i])]

\* the segments of a feature: node pair, length and label of each
SegmentsOf(f) ==
    LET c == VerticesOf(f)
    IN  {[pair |-> {key(c[i]), key(c[i + 1])},
          meters |-> distance(c[i], c[i + 1]),
          from |-> f,
          label |-> SegmentLabel(f, c[i], c[i + 1])] : i \in 1..(Len(c) - 1)}

\* the segments of the features the loop has been given
AllSegments == UNION {SegmentsOf(f) : f \in Range(probe.order)}

\* the loop has run over every feature without an exception
BuildDone == fetchState = "pending" /\ probe.next > Len(probe.order)

(***************************************************************************)
(* C15: the built graph has one edge for every node pair some segment      *)
(* produces and no other; the stored label is the label of one of the      *)
(* segments of the pair and its cost is <= the cost of every segment of    *)
(* the pair, in every order of the features (so the stored cost is the     *)
(* least one, whatever the order); and during the build the label of an    *)
(* existing edge changes only to one of strictly lower cost. Checked under *)
(* SpecBuild.                                                              *)
(***************************************************************************)
C15_DuplicateEdgeCollapse ==
    /\ [](BuildDone =>
            /\ DOMAIN g.edges = {sg.pair : sg \in AllSegments}
            /\ \A sg \in AllSegments : g.edges[sg.pair].cost <= sg.label.cost
            /\ \A p \in DOMAIN g.edges :
                   \E sg \in AllSegments : sg.pair = p /\ sg.label = g.edges[p])
    /\ [][\A p \in DOMAIN g.edges :
              /\ p \in DOMAIN g'.edges
              /\ g'.edges[p] # g.edges[p] => g'.edges[p].cost < g.edges[p].cost]_vars

\* a pair with three segments of different costs, the cheapest one given first
C15_Witness ==
    /\ BuildDone
    /\ Len(probe.order) >= 3
    /\ \E sg \in SegmentsOf(probe.order[1]) :
           /\ g.edges[sg.pair] = sg.label
           /\ Cardinality({t.label.cost : t \in {u \in AllSegments : u.pair = sg.pair}}) >= 3

(***************************************************************************)
(* C16: every edge of the graph joins two distinct node keys, during and   *)
(* after the build, whatever the geometry of the features (two consecutive *)
(* vertices with one key included). Checked under SpecBuild.               *)
(***************************************************************************)
C16_EdgesJoinDistinctNodes == \A p \in DOMAIN g.edges : Cardinality(p) = 2

(***************************************************************************)
(* C17: when the then-callback has run on the fetched collection, whatever *)
(* anomaly one of its features carries (no geometry, missing or malformed  *)
(* attributes), the routing handlers are installed, every segment of every *)
(* feature that has a geometry has its edge in the graph, and nothing is   *)
(* shown to the user.                                                      *)
(***************************************************************************)
C17_AnomalyDoesNotAbortBuild ==
    last = Trace("fetch", "then")
        => /\ HandlersInstalled
           /\ \A f \in Range(Collections[features]) :
                  f.geometry.type # Undefined
                      => \A sg \in SegmentsOf(f) : sg.pair \in DOMAIN g.edges
           /\ hintEl.hidden

(***************************************************************************)
(* C18: the forEach step of a feature with fewer than 2 vertices (after    *)
(* flattening) changes neither the graph nor the coordinate table and does *)
(* not end the loop; and the finished build equals, nodes in their order   *)
(* included, the build of the same features without the ones that have     *)
(* fewer than 2 vertices. Checked under SpecBuild.                         *)
(***************************************************************************)
Degenerate(f) == f.geometry.type # Undefined /\ Len(VerticesOf(f)) < 2

NotDegenerate(f) == ~Degenerate(f)

C18_DegenerateFeatureSkipped ==
    /\ [][(probe.next <= Len(probe.order) /\ Degenerate(probe.order[probe.next]))
              => /\ g' = g
                 /\ nodeKeyToCoord' = nodeKeyToCoord
                 /\ fetchState' = fetchState]_vars
    /\ [](BuildDone =>
            \E B \in {BuildGraph(SelectSeq(probe.order, NotDegenerate))} :
                /\ ~B.thrown
                /\ g = B.g
                /\ nodeKeyToCoord = B.nodeKeyToCoord)

\* a one-vertex feature came before the first feature that uses its vertex
C18_Witness ==
    /\ BuildDone
    /\ \E i \in 1..Len(probe.order) :
           /\ Degenerate(probe.order[i])
           /\ Len(VerticesOf(probe.order[i])) = 1
           /\ key(VerticesOf(probe.order[i])[1]) \in NodeSet(g)
           /\ \A j \in 1..(i - 1) :
                  \A sg \in SegmentsOf(probe.order[j]) :
                      key(VerticesOf(probe.order[i])[1]) \notin sg.pair

(***************************************************************************)
(* C19: every edge of the graph comes from a segment of a feature and      *)
(* carries the score of that feature: its numeric total_score, or 1 when   *)
(* total_score is missing or not a number; that score is the one squared   *)
(* in the cost and the one that decides the difficulty bucket. Checked     *)
(* under SpecBuild.                                                        *)
(***************************************************************************)
\* the edge p carries the score that ScoreOf gives the feature of one of the
\* segments of p, in its label, in its cost and for its bucket
CarriesScore(p, ScoreOf(_)) ==
    \E sg \in AllSegments :
        /\ sg.pair = p
        /\ g.edges[p].score = ScoreOf(sg.from)
        /\ g.edges[p].cost = sg.meters * ScoreOf(sg.from) * ScoreOf(sg.from)
        /\ weight(g.edges[p], {Bucket(ScoreOf(sg.from))}, [id \in PrefIds |-> TRUE], FALSE)
               = g.edges[p].cost
        /\ weight(g.edges[p], Levels \ {Bucket(ScoreOf(sg.from))},
                  [id \in PrefIds |-> TRUE], FALSE) = Infinity

\* total_score when it is a number, 1 otherwise
StatedScore(f) ==
    IF f.properties.total_score.nan THEN ScoreScale ELSE f.properties.total_score.val

C19_ScoreAsStated == \A p \in DOMAIN g.edges : CarriesScore(p, StatedScore)

(***************************************************************************)
(* C19, amended: every edge carries the numeric total_score of its feature *)
(* when that number is not 0, and 1 when total_score is missing, not a     *)
(* number, or 0; that score is the one squared in the cost and the one     *)
(* that decides the difficulty bucket. Checked under SpecBuild.            *)
(***************************************************************************)
AmendedScore(f) ==
    IF f.properties.total_score.nan \/ f.properties.total_score.val = 0
    THEN ScoreScale
    ELSE f.properties.total_score.val

C19_ScoreOrDefault == \A p \in DOMAIN g.edges : CarriesScore(p, AmendedScore)

\* edges from a feature without a score, from one with score 0 and from one
\* with a score of its own
C19_Witness ==
    /\ BuildDone
    /\ \E p, q, r \in DOMAIN g.edges :
           /\ \E sg \in AllSegments :
                  /\ sg.pair = p /\ sg.label = g.edges[p]
                  /\ sg.from.properties.total_score = NaN
                  /\ g.edges[p].score = ScoreScale
           /\ \E sg \in AllSegments :
                  /\ sg.pair = q /\ sg.label = g.edges[q]
                  /\ sg.from.properties.total_score = S2(0)
                  /\ g.edges[q].score = ScoreScale
           /\ \E sg \in AllSegments :
                  /\ sg.pair = r /\ sg.label = g.edges[r]
                  /\ g.edges[r].score = 2 * ScoreScale

(***************************************************************************)
(* C20: the cost of every edge of the graph is the distance in meters      *)
(* between its two nodes times the square of its score; and of two edges   *)
(* of equal length the one with the higher score has the strictly higher   *)
(* cost. Checked under SpecBuild.                                          *)
(***************************************************************************)
\* the distance between the coordinates of the nodes of an edge
LengthMeters(p) ==
    LET a == CHOOSE x \in p : TRUE
        b == CHOOSE x \in p : p = {a, x}
    IN  distance(nodeKeyToCoord[a], nodeKeyToCoord[b])

C20_CostFormula ==
    \A p \in DOMAIN g.edges :
        g.edges[p].cost = LengthMeters(p) * g.edges[p].score * g.edges[p].score

C20_MonotonicCost ==
    /\ C20_CostFormula
    /\ \A p, q \in DOMAIN g.edges :
           (LengthMeters(p) = LengthMeters(q) /\ g.edges[p].score > g.edges[q].score)
               => g.edges[p].cost > g.edges[q].cost

(***************************************************************************)
(* C21: the components computed at the end of the build partition the      *)
(* nodes of the graph: every node lies in exactly one component and has a  *)
(* component index >= 0; and two nodes have the same index exactly when a  *)
(* path of the graph joins them, whatever the costs and the preferences.   *)
(* Stated on the state the then-callback leaves; the components are not    *)
(* computed again.                                                         *)
(***************************************************************************)
C21_ComponentsPartition ==
    (last = Trace("fetch", "then") /\ fetchState = "built")
        => /\ \A v \in NodeSet(g) :
                  /\ Cardinality({i \in DOMAIN comps : v \in comps[i]}) = 1
                  /\ compIdx(comps, v) >= 0
           /\ \A i \in DOMAIN comps : comps[i] # {} /\ comps[i] \subseteq NodeSet(g)
           /\ \A a, b \in NodeSet(g) :
                  compIdx(comps, a) = compIdx(comps, b) <=> SimplePaths(g, a, b) # {}

\* two components of two nodes each
C21_Witness ==
    /\ last = Trace("fetch", "then")
    /\ fetchState = "built"
    /\ Len(comps) = 2
    /\ \E a, b, c \in NodeSet(g) :
           /\ a # b
           /\ compIdx(comps, a) = compIdx(comps, b)
           /\ compIdx(comps, a) # compIdx(comps, c)

(***************************************************************************)
(* C22: once the build is done, the graph (nodes in their order, edges and *)
(* every edge label), the node-coordinate table and the components are, in *)
(* every state, the ones the build made from the fetched collection,       *)
(* whatever Start and Clear presses, map clicks, resolutions and           *)
(* preference changes have happened since: an edge the weight function     *)
(* makes impassable stays in the graph.                                    *)
(***************************************************************************)
C22_GraphNeverMutated ==
    fetchState = "built"
        => \E B \in {BuildGraph(Collections[features])} :
               /\ g = B.g
               /\ nodeKeyToCoord = B.nodeKeyToCoord
               /\ comps = components(B.g)

\* a resolution failed on an edge that the preferences mask
C22_Witness ==
    /\ Resolved
    /\ last.outcome = "noRoutePrefs"
    /\ \E ed \in DOMAIN g.edges : W2[ed] = Infinity
    /\ g = BuildGraph(Collections[features]).g

C24_FetchFailureLeavesRoutingInert ==
    /\ [](last = Trace("fetch", "catch") => fetchState = "failed")
    /\ [](fetchState = "failed"
            => /\ Idle
               /\ hintEl = [textContent |-> Msg(""), hidden |-> TRUE]
               /\ ~last.preCheck
               /\ last.solverCalls = 0
               /\ last.event \in {"start", "clear", "click"} => last.branch = "nohandler")
    /\ [][fetchState = "failed" => fetchState' = "failed"]_vars
    /\ [][(fetchState = "failed" /\ last'.event = "change")
             => (checked' # checked \/ pref' # pref)]_vars

\* after the failure a checkbox was changed and a map click found no handler
C24_Witness ==
    /\ fetchState = "failed"
    /\ last = Trace("click", "nohandler")
    /\ ~checked["extreme"]
    /\ ~pref["steep"]
    /\ Idle

(***************************************************************************)
(* C25: a map click for which nearestNodeTo finds no node (the graph is    *)
(* empty) changes nothing: startNode, endNode, routingActive, the markers, *)
(* the route line and the banner are as before, in the selection mode and  *)
(* out of it. A step that leaves a click in the trace and the number of    *)
(* pending hide callbacks unchanged is a map click (or no step at all).    *)
(***************************************************************************)
C25_ClickWithoutNodeIsNoOp ==
    [][(/\ last'.event = "click"
        /\ hideTimers' = hideTimers
        /\ nearestNodeTo(g, nodeKeyToCoord, 0) = Null)
          => /\ UNCHANGED <<startNode, endNode, routingActive, markers, routeLine, hintEl>>
             /\ last'.branch \in {"nonode", "inactive", "nohandler"}
             /\ ~Solves]_vars

\* a click on the empty graph in the selection mode
C25_Witness ==
    /\ last = Trace("click", "nonode")
    /\ fetchState = "built"
    /\ NodeSet(g) = {}
    /\ routingActive
    /\ startNode = Null
    /\ hintEl = [textContent |-> Msg("clickStart"), hidden |-> FALSE]

(***************************************************************************)
(* C26: a change of a difficulty or hazard preference checkbox leaves      *)
(* startNode, endNode, routingActive, the route line, the markers and the  *)
(* banner as they are and runs neither the pre-check nor the solver; and   *)
(* a route line is put on the map only by the map click that sets the end  *)
(* node. A step that leaves a change in the trace and the number of        *)
(* pending hide callbacks unchanged is a checkbox change (or no step).     *)
(***************************************************************************)
C26_PreferenceChangeNeverReroutes ==
    [][/\ (last'.event = "change" /\ hideTimers' = hideTimers)
             => /\ UNCHANGED <<startNode, endNode, routingActive, routeLine, markers, hintEl>>
                /\ ~Solves
       /\ (routeLine' # routeLine /\ routeLine' # <<>>)
             => /\ last'.event = "click"
                /\ last'.branch = "end"
                /\ endNode = Null
                /\ endNode' # Null]_vars

\* the drawn route crosses an edge that the preferences, changed since, ban
C26_Witness ==
    /\ last = Trace("change", "none")
    /\ endNode # Null
    /\ Len(routeLine) >= 2
    /\ \E i \in 1..(Len(routeLine) - 1) :
           W2[{key(routeLine[i]), key(routeLine[i + 1])}] = Infinity

(***************************************************************************)
(* C27: in every reachable state, endNode is set only if startNode is set, *)
(* and when routingActive is false both startNode and endNode are null.    *)
(***************************************************************************)
C27_EndpointInvariant ==
    /\ endNode # Null => startNode # Null
    /\ ~routingActive => (startNode = Null /\ endNode = Null)

\* both endpoints set, in the selection mode, some events after the resolution
C27_Witness ==
    /\ routingActive
    /\ startNode # Null
    /\ endNode # Null
    /\ startNode # endNode
    /\ last = Trace("change", "none")

(***************************************************************************)
(* C28: a route line is on the map only while both endpoints are set, and  *)
(* it then runs from the start node to the end node; it is put there only  *)
(* by a resolution of exactly these two endpoints that succeeded; every    *)
(* other change of an endpoint removes it; and in the state that a         *)
(* disconnected, no-route or no-path outcome leaves there is no route      *)
(* line at all.                                                            *)
(***************************************************************************)
C28_RouteLineOnlyAfterSuccess ==
    /\ [](routeLine # <<>>
            => /\ startNode # Null
               /\ endNode # Null
               /\ routeLine[1] = nodeKeyToCoord[startNode]
               /\ routeLine[Len(routeLine)] = nodeKeyToCoord[endNode])
    /\ []((Resolved /\ last.outcome \in FailureKinds) => routeLine = <<>>)
    /\ [][(routeLine' # routeLine /\ routeLine' # <<>>)
             => /\ last'.event = "click"
                /\ last'.branch = "end"
                /\ last'.outcome \in {"route1", "route2"}
                /\ last'.path[1] = startNode'
                /\ last'.path[Len(last'.path)] = endNode'
                /\ routeLine' = [i \in 1..Len(last'.path) |-> nodeKeyToCoord[last'.path[i]]]]_vars
    /\ [][((startNode' # startNode \/ endNode' # endNode)
              /\ ~(last'.event = "click" /\ last'.branch = "end"
                      /\ last'.outcome \in {"route1", "route2"}))
             => routeLine' = <<>>]_vars

\* a failed resolution after a restart: the markers of the new pair, no line
C28_Witness ==
    /\ Resolved
    /\ last.outcome \in FailureKinds
    /\ routeLine = <<>>
    /\ markers = [start |-> nodeKeyToCoord[startNode], end |-> nodeKeyToCoord[endNode]]
    /\ hideTimers = 0

(***************************************************************************)
(* C29: whenever pass 2 produces the route of a resolution, the reported   *)
(* path contains at least one edge of the extreme bucket (score > 7),      *)
(* and every path between the two endpoints that the preferences leave     *)
(* open contains such an edge (pass 1 had nothing to find).                *)
(***************************************************************************)
C29_Pass2RouteHasExtremeEdge ==
    (Resolved /\ last.outcome = "route2")
        => /\ \E ed \in EdgesOf(last.path) : ExtremeEdge(ed)
           /\ last.path \in Passable(g, W2, startNode, endNode)
           /\ \A p \in Passable(g, W2, startNode, endNode) :
                 \E ed \in EdgesOf(p) : ExtremeEdge(ed)

\* a pass 2 route whose extreme edge scores below EXTREME_MIN, so that the
\* banner does not mention it
C29_Witness ==
    /\ Resolved
    /\ last.outcome = "route2"
    /\ routeLine # <<>>
    /\ ~last.usedExtreme
    /\ Len(last.path) >= 2

(***************************************************************************)
(* C30: the checked difficulty levels always form a prefix of the order    *)
(* easy, moderate, challenging, extreme: a harder level is never checked   *)
(* while an easier one is unchecked, so extreme checked means all checked; *)
(* and every change event takes a prefix to a prefix.                      *)
(***************************************************************************)
PrefixSelection(chk) ==
    \A easier, harder \in Levels :
        (LevelIndex(easier) < LevelIndex(harder) /\ chk[harder]) => chk[easier]

C30_CheckedLevelsArePrefix ==
    /\ [](PrefixSelection(checked)
            /\ (checked["extreme"] => \A l \in Levels : checked[l]))
    /\ [][(checked' # checked /\ PrefixSelection(checked))
             => (last'.event = "change" /\ PrefixSelection(checked'))]_vars

\* a proper, non-empty prefix left by a change event
C30_Witness ==
    /\ last.event = "change"
    /\ checked["easy"]
    /\ checked["moderate"]
    /\ checked["challenging"]
    /\ ~checked["extreme"]

(***************************************************************************)
(* C31: every edge cost of the built graph is non-negative, and under      *)
(* every preference snapshot each value of the weight function of either   *)
(* pass is a non-negative number or Infinity: the solver never meets a     *)
(* negative weight.                                                        *)
(***************************************************************************)
NonNegativeOrInfinity(x) == x = Infinity \/ (x >= 0 /\ x < Infinity)

C31_WeightsNonNegative ==
    fetchState = "built" =>
        \A ed \in DOMAIN g.edges :
            /\ g.edges[ed].cost >= 0
            /\ NonNegativeOrInfinity(W1[ed])
            /\ NonNegativeOrInfinity(W2[ed])

\* a route over an edge of negative score, resolved by the solver
C31_Witness ==
    /\ Drawn
    /\ last.solverCalls > 0
    /\ \E ed \in EdgesOf(last.path) : g.edges[ed].score < 0 /\ W1[ed] > 0
    /\ \E ed \in DOMAIN g.edges : W1[ed] = Infinity

(***************************************************************************)
(* C32: when the second click resolves to the start node itself, the       *)
(* resolution succeeds in pass 1 under every preference snapshot, also     *)
(* one that allows no difficulty bucket: the path is [start], its length   *)
(* is 0, the solver ran once, and the line drawn is that one point.        *)
(***************************************************************************)
C32_SameNodeResolvesInPass1 ==
    (Resolved /\ endNode = startNode)
        => /\ last.outcome = "route1"
           /\ last.solverCalls = 1
           /\ ~last.pass2Reached
           /\ last.path = <<startNode>>
           /\ last.lenM = 0
           /\ last.msg = RouteMsg(0, FALSE)
           /\ routeLine = <<nodeKeyToCoord[startNode]>>

\* the start node clicked twice while no difficulty bucket is allowed and a
\* hazard is banned
C32_Witness ==
    /\ Resolved
    /\ endNode = startNode
    /\ startNode # Null
    /\ \A l \in Levels : ~checked[l]
    /\ \E p \in PrefIds : ~pref[p]
    /\ \A ed \in DOMAIN g.edges : W2[ed] = Infinity
    /\ DOMAIN g.edges # {}

(***************************************************************************)
(* Routing over the input segments themselves                              *)
(***************************************************************************)
\* the segments of the collection the fetch delivered
InputSegments == UNION {SegmentsOf(f) : f \in Range(Collections[features])}

\* the node pairs some input segment joins passably under the checkboxes as
\* they are (the extreme bucket counts when it is allowed)
PassablePairs ==
    {sg.pair : sg \in {s \in InputSegments :
                          weight(s.label, getCheckedDifficulties(checked), pref, FALSE)
                              < Infinity}}

\* the nodes of the graph joined by the passable input segments
SegmentGraph == [nodes |-> g.nodes, edges |-> [p \in PassablePairs |-> TRUE]]

\* some sequence of passable input segments joins the two endpoints
SegmentRouteExists == SimplePaths(SegmentGraph, startNode, endNode) # {}

(***************************************************************************)
(* C33: if some sequence of input segments, each passable under the        *)
(* preference snapshot, joins the start node to the end node, then the     *)
(* resolution over the collapsed graph does not end in 'no route with      *)
(* current preferences' or in 'no path found'.                             *)
(***************************************************************************)
C33_CollapsedGraphFindsSegmentRoutes ==
    (Resolved /\ SegmentRouteExists)
        => last.outcome \notin {"noRoutePrefs", "noPathFound"}

(***************************************************************************)
(* Tutorial: the overlay #tour, the closure of startMapTour and the Tour    *)
(* object, whose listeners the then-callback registers on the same         *)
(* buttons. In this specification probe holds the tutorial's state.        *)
(***************************************************************************)
\* TOUR_STEPS of startMapTour; a step's text is known by its index
TOUR_STEPS ==
    << [target |-> "#map", dim |-> FALSE, hideUI |-> TRUE],
       [target |-> "#legend", dim |-> TRUE, hideUI |-> FALSE],
       [target |-> "#toolbox", dim |-> TRUE, hideUI |-> FALSE] >>

\* the page before the welcome popup is answered: the overlay hidden, the
\* Tour object as declared (steps: [], i: 0; Tour.start is never called)
TourLoaded ==
    [welcomePopup |-> TRUE, started |-> FALSE, startedBeforeLoad |-> FALSE,
     current |-> 0, hidden |-> TRUE, text |-> Null, uiHidden |-> FALSE,
     backdrop |-> FALSE, elevated |-> "", spot |-> FALSE,
     Tour |-> [steps |-> <<>>, i |-> 0]]

\* endTour() of startMapTour
endTour(T) ==
    [T EXCEPT !.hidden = TRUE, !.backdrop = FALSE, !.uiHidden = FALSE,
              !.elevated = "", !.spot = FALSE]

\* showStep(i) of startMapTour, i counted from 0
showStep(T, i) ==
    IF i + 1 \notin DOMAIN TOUR_STEPS THEN endTour(T)
    ELSE LET step == TOUR_STEPS[i + 1]
         IN  [T EXCEPT !.hidden = FALSE, !.text = i, !.uiHidden = step.hideUI,
                       !.backdrop = step.dim,
                       !.elevated = IF step.dim THEN step.target ELSE "",
                       !.spot = step.dim]

\* Tour.end()
TourEnd(T) == [T EXCEPT !.hidden = TRUE, !.Tour = [steps |-> <<>>, i |-> 0]]

\* Tour.show()
TourShow(T) ==
    IF T.Tour.i + 1 \notin DOMAIN T.Tour.steps THEN TourEnd(T)
    ELSE [T EXCEPT !.text = T.Tour.steps[T.Tour.i + 1]]

\* Tour.next()
TourNext(T) ==
    IF T.Tour.i < Len(T.Tour.steps) - 1
    THEN TourShow([T EXCEPT !.Tour.i = @ + 1])
    ELSE TourEnd(T)

\* Tour.prev()
TourPrev(T) == IF T.Tour.i > 0 THEN TourShow([T EXCEPT !.Tour.i = @ - 1]) ELSE T

\* #tour-next .onclick of startMapTour
onclickNext(T) ==
    IF T.current < Len(TOUR_STEPS) - 1
    THEN showStep([T EXCEPT !.current = @ + 1], T.current + 1)
    ELSE endTour(T)

\* #tour-prev .onclick of startMapTour
onclickPrev(T) ==
    IF T.current > 0 THEN showStep([T EXCEPT !.current = @ - 1], T.current - 1) ELSE T

\* the listeners of a tour button run in the order of their registration:
\* the onclick handler from the moment startMapTour first set it, the Tour
\* listener from the then-callback
Listeners(T, built) ==
    IF ~built THEN (IF T.started THEN <<"onclick">> ELSE <<>>)
    ELSE IF ~T.started THEN <<"Tour">>
    ELSE IF T.startedBeforeLoad THEN <<"onclick", "Tour">>
    ELSE <<"Tour", "onclick">>

\* one listener of a tour button
Listener(T, button, who) ==
    CASE button = "next" /\ who = "onclick" -> onclickNext(T)
      [] button = "next" /\ who = "Tour" -> TourNext(T)
      [] button = "prev" /\ who = "onclick" -> onclickPrev(T)
      [] button = "prev" /\ who = "Tour" -> TourPrev(T)
      [] button = "skip" /\ who = "onclick" -> endTour(T)
      [] button = "skip" /\ who = "Tour" -> TourEnd(T)

\* a click on a tour button: its listeners one after the other
RECURSIVE Dispatch(_, _, _)
Dispatch(T, button, order) ==
    IF order = <<>> THEN T
    ELSE Dispatch(Listener(T, button, Head(order)), button, Tail(order))

TourUnchanged ==
    UNCHANGED <<features, fetchState, g, nodeKeyToCoord, comps, routingActive,
                startNode, endNode, checked, pref, hintEl, hideTimers, routeLine,
                markers>>

\* 'start-tutorial' of the welcome popup: the popup goes, startMapTour runs
StartTutorial ==
    /\ probe.welcomePopup
    /\ probe' = showStep([probe EXCEPT !.welcomePopup = FALSE, !.started = TRUE,
                                        !.startedBeforeLoad = ~HandlersInstalled,
                                        !.current = 0], 0)
    /\ last' = Trace("start-tutorial", "tour")
    /\ TourUnchanged

\* 'skip-tutorial' of the welcome popup
SkipTutorial ==
    /\ probe.welcomePopup
    /\ probe' = [probe EXCEPT !.welcomePopup = FALSE]
    /\ last' = Trace("skip-tutorial", "tour")
    /\ TourUnchanged

\* a press of Next, a button of the overlay
TourNextClick ==
    /\ ~probe.hidden
    /\ probe' = Dispatch(probe, "next", Listeners(probe, HandlersInstalled))
    /\ last' = Trace("next", "tour")
    /\ TourUnchanged

\* a press of Prev
TourPrevClick ==
    /\ ~probe.hidden
    /\ probe' = Dispatch(probe, "prev", Listeners(probe, HandlersInstalled))
    /\ last' = Trace("prev", "tour")
    /\ TourUnchanged

\* a press of Skip
TourSkipClick ==
    /\ ~probe.hidden
    /\ probe' = Dispatch(probe, "skip", Listeners(probe, HandlersInstalled))
    /\ last' = Trace("skip", "tour")
    /\ TourUnchanged

\* the window is resized: Tour.show() once the then-callback has run (the
\* listener of startMapTour only moves the spotlight)
WindowResize ==
    /\ probe' = IF HandlersInstalled THEN TourShow(probe) ELSE probe
    /\ last' = Trace("resize", "tour")
    /\ TourUnchanged

InitTour ==
    /\ features \in DOMAIN Collections
    /\ probe = TourLoaded
    /\ PageLoaded

NextTour ==
    \/ FetchThen
    \/ FetchCatch
    \/ StartTutorial
    \/ SkipTutorial
    \/ TourNextClick
    \/ TourPrevClick
    \/ TourSkipClick
    \/ WindowResize

SpecTour == InitTour /\ [][NextTour]_vars

(***************************************************************************)
(* C34: while the tutorial is on a non-final step, a press of Next leaves  *)
(* the overlay visible and showing the following step, whether the         *)
(* then-callback ran before or after the tutorial was started. Checked     *)
(* under SpecTour.                                                         *)
(***************************************************************************)
C34_NextShowsFollowingStep ==
    [][(/\ last'.event = "next"
        /\ probe.started
        /\ ~probe.hidden
        /\ probe.current < Len(TOUR_STEPS) - 1)
          => /\ ~probe'.hidden
             /\ probe'.current = probe.current + 1
             /\ probe'.text = probe.current + 1]_vars
====
